---- MODULE Spec2Model ----
(***************************************************************************)
(* Model of CodeEditor.fix_indent_smart                                    *)
(* (spyder/plugins/editor/widgets/codeeditor.py).                          *)
(*                                                                         *)
(* A document is a sequence of lines (QTextBlocks); a line is a sequence   *)
(* of one-character strings.  Block numbers are 0-based as in the source,  *)
(* so block n is doc[n + 1].                                               *)
(***************************************************************************)
EXTENDS Integers, Sequences, FiniteSets, TLC

VARIABLES
    doc,                    \* the QTextDocument: sequence of lines
    block_nb,               \* textCursor().blockNumber()
    indent_chars,           \* self.indent_chars
    tab_stop_width_spaces,  \* self.tab_stop_width_spaces
    ncalls,                 \* number of fix_indent_smart calls made so far
    args,                   \* arguments of the last call
    loc,                    \* local variables of the last call at its return
    ret,                    \* value returned by the last call
    userdata,               \* block.userData() of every block
    nav,                    \* the go_to_... call in progress, or the last one
    lsp_ready,              \* self.lsp_ready
    completion_args,        \* self.completion_args
    word_tokens,            \* self.word_tokens
    text_version,           \* self.text_version
    cursor_position,        \* self.textCursor().position()
    requests,               \* completion requests sent and not yet answered
    handled,                \* the response or token reply handled last
    anchor,                 \* self.textCursor().anchor()
    toggled,                \* the comment function that ran last
    lint,                   \* the linting results processed, the warnings read
    lsp_log,                \* the calls and requests of the LSP services
    history                 \* the undo and redo steps that undo() and redo() take

vars == <<doc, block_nb, indent_chars, tab_stop_width_spaces,
          ncalls, args, loc, ret, userdata, nav,
          lsp_ready, completion_args, word_tokens, text_version,
          cursor_position, requests, handled, anchor, toggled,
          lint, lsp_log, history>>

\* the variables of the go_to_... functions
nav_vars == <<userdata, nav>>

\* the variables of the completion handlers
completion_vars ==
    <<lsp_ready, completion_args, word_tokens, text_version,
      cursor_position, requests, handled>>

\* the variables of the comment functions
comment_vars == <<anchor, toggled>>

\* the variables of linting, of the LSP services and of undo
service_vars == <<lint, lsp_log, history>>

\* the variables fix_indent_smart works on
indent_vars == <<indent_chars, tab_stop_width_spaces, ncalls, args, loc, ret>>

----------------------------------------------------------------------------
(* Python string primitives, on sequences of characters *)

Max2(a, b) == IF a >= b THEN a ELSE b

Min2(a, b) == IF a <= b THEN a ELSE b

\* str.isspace() for one character (the whitespace the model's texts hold)
IsSpace(c) == c \in {" ", "\t"}

\* s[:n]
Prefix(s, n) == SubSeq(s, 1, Min2(n, Len(s)))

\* s[n:]
Suffix(s, n) == SubSeq(s, Min2(n, Len(s)) + 1, Len(s))

\* number of whitespace characters at the start of s, from position i on
RECURSIVE SpacesFrom(_, _)
SpacesFrom(s, i) ==
    IF i > Len(s) \/ ~IsSpace(s[i]) THEN 0 ELSE 1 + SpacesFrom(s, i + 1)

\* number of whitespace characters at the end of s, from position i back
RECURSIVE SpacesBack(_, _)
SpacesBack(s, i) ==
    IF i < 1 \/ ~IsSpace(s[i]) THEN 0 ELSE 1 + SpacesBack(s, i - 1)

\* len(s) - len(s.lstrip())
LeadingSpaces(s) == SpacesFrom(s, 1)

\* len(s) - len(s.rstrip())
TrailingSpaces(s) == SpacesBack(s, Len(s))

\* s.rstrip()
RStrip(s) == Prefix(s, Len(s) - TrailingSpaces(s))

\* s.lstrip()
LStrip(s) == Suffix(s, LeadingSpaces(s))

\* s.strip()
Strip(s) == LStrip(RStrip(s))

\* 1-based position of the first character of s at or after i that is in
\* the set cs, or 0
RECURSIVE FirstIn(_, _, _)
FirstIn(s, cs, i) ==
    IF i > Len(s) THEN 0
    ELSE IF s[i] \in cs THEN i ELSE FirstIn(s, cs, i + 1)

\* 1-based position of the last character of s at or before i that is in
\* the set cs, or 0
RECURSIVE LastIn(_, _, _)
LastIn(s, cs, i) ==
    IF i < 1 THEN 0
    ELSE IF s[i] \in cs THEN i ELSE LastIn(s, cs, i - 1)

\* s.find(c) for a one-character c: 0-based index of the first c, or -1
Find(s, c) == FirstIn(s, {c}, 1) - 1

\* s.rfind(c) for a one-character c: 0-based index of the last c, or -1
RFind(s, c) == LastIn(s, {c}, Len(s)) - 1

\* s.count(c) for a one-character c
Count(s, c) == Cardinality({i \in 1..Len(s) : s[i] = c})

\* s.endswith(t)
EndsWith(s, t) ==
    /\ Len(t) <= Len(s)
    /\ SubSeq(s, Len(s) - Len(t) + 1, Len(s)) = t

\* s.startswith(t)
StartsWith(s, t) ==
    /\ Len(t) <= Len(s)
    /\ SubSeq(s, 1, Len(t)) = t

\* s.strip().split()[:1]: the first whitespace-separated word, as a list of
\* at most one element
FirstWord(s) ==
    LET t == Strip(s)
        i == FirstIn(t, {" ", "\t"}, 1)
    IN  IF t = <<>> THEN <<>>
        ELSE IF i # 0 THEN <<Prefix(t, i - 1)>>
        ELSE <<t>>

\* s.replace(c, r) for a one-character c
RECURSIVE Replace(_, _, _)
Replace(s, c, r) ==
    IF s = <<>> THEN <<>>
    ELSE (IF Head(s) = c THEN r ELSE <<Head(s)>>) \o Replace(Tail(s), c, r)

\* c * n
RECURSIVE Repeat(_, _)
Repeat(c, n) == IF n <= 0 THEN <<>> ELSE <<c>> \o Repeat(c, n - 1)

Openers == {"(", "[", "{"}

Closers == {")", "]", "}"}

\* len(re.split(r'\(|\{|\[', s))
SplitOpenLen(s) == 1 + Cardinality({i \in 1..Len(s) : s[i] \in Openers})

\* len(re.split(r'\)|\}|\]', s))
SplitCloseLen(s) == 1 + Cardinality({i \in 1..Len(s) : s[i] \in Closers})

\* variant that also counts the bracket itself
LastExprLen_withBracket(s) == Len(s) - LastIn(s, Openers, Len(s)) + 1

\* len(re.split(r'\(|\{|\[', s)[-1]): length of the text after the last
\* opening bracket (the whole text when there is none)
LastExprLen(s) == Len(s) - LastIn(s, Openers, Len(s))

----------------------------------------------------------------------------
(* Document access *)

\* fix_indent dispatches to fix_indent_smart only for Python-like files;
\* the calls modelled here are those
is_python_like == TRUE

\* TextEditBaseWidget.get_block_indentation(block_nb): leading whitespace
\* of the block, a tab counting for tab_stop_width_spaces columns
get_block_indentation(d, n, tsw) ==
    IF n + 1 \in 1..Len(d)
    THEN LeadingSpaces(Replace(d[n + 1], "\t", Repeat(" ", tsw)))
    ELSE 0

\* TextEditBaseWidget.get_text_line(line_nb)
get_text_line(d, n) == IF n + 1 \in 1..Len(d) THEN d[n + 1] ELSE <<>>

\* len(self.indent_chars), or tab_stop_width_spaces in tab mode: the amount
\* the indent / unindent rules add or subtract
IndentUnit(ic, tsw) == IF ic = <<"\t">> THEN tsw ELSE Len(ic)

kw_return == <<"r", "e", "t", "u", "r", "n">>

kw_continue == <<"c", "o", "n", "t", "i", "n", "u", "e">>

kw_break == <<"b", "r", "e", "a", "k">>

kw_pass == <<"p", "a", "s", "s">>

----------------------------------------------------------------------------
(* The backward scan: for prevline in range(block_nb-1, -1, -1) *)

\* prevtext of a scanned line: right-stripped, cut at the first '#'
InlineCommentRemoved(line) ==
    LET t  == RStrip(line)
        ic == Find(t, "#")
    IN  IF ic # -1 THEN Prefix(t, ic) ELSE t

\* "return" in prevtext.strip().split()[:1]
FirstWordIsReturn(t) == FirstWord(t) = <<kw_return>>

\* prevtext.strip() ends with ')' or ']' or '}'
EndsWithCloser(t) ==
    LET s == Strip(t) IN s # <<>> /\ s[Len(s)] \in Closers

\* count(closing) - count(opening)
DiffOf(t, close, open) == Count(t, close) - Count(t, open)

\* locals before the loop
ScanInit(cos) ==
    [diff_paren |-> 0, diff_brack |-> 0, diff_curly |-> 0,
     add_indent |-> FALSE, comment_or_string |-> cos,
     prevline |-> -1, prevtext |-> <<>>, broke |-> FALSE, scan_steps |-> 0]

\* one iteration of the loop body on block n
ScanBody(st, d, n) ==
    LET prevtext == InlineCommentRemoved(d[n + 1])
        s0 == [st EXCEPT !.prevline = n, !.prevtext = prevtext,
                         !.scan_steps = @ + 1]
        s1 == IF ~FirstWordIsReturn(prevtext) /\ EndsWithCloser(prevtext)
              THEN [s0 EXCEPT !.comment_or_string = TRUE]
              ELSE IF EndsWith(Strip(prevtext), <<":">>) /\ is_python_like
                   THEN [s0 EXCEPT !.add_indent = TRUE,
                                   !.comment_or_string = TRUE]
                   ELSE s0
        dp == DiffOf(prevtext, ")", "(")
        db == DiffOf(prevtext, "]", "[")
        dc == DiffOf(prevtext, "}", "{")
    IN  IF prevtext = <<>> THEN s0
        ELSE IF dp > 0 THEN [s1 EXCEPT !.diff_paren = dp]
        ELSE IF db > 0 THEN [s1 EXCEPT !.diff_brack = db]
        ELSE IF dc > 0 THEN [s1 EXCEPT !.diff_curly = dc]
        ELSE IF s1.diff_paren # 0 \/ s1.diff_brack # 0 \/ s1.diff_curly # 0
             THEN LET s2 == [s1 EXCEPT !.diff_paren = @ + dp,
                                       !.diff_brack = @ + db,
                                       !.diff_curly = @ + dc]
                  IN  IF s2.diff_paren = 0 /\ s2.diff_brack = 0
                         /\ s2.diff_curly = 0
                      THEN [s2 EXCEPT !.broke = TRUE]
                      ELSE s2
        ELSE [s1 EXCEPT !.broke = TRUE]

RECURSIVE ScanLoop(_, _, _)
\* variant that runs the body twice on every line
ScanLoop_twice(st, d, n) ==
    IF n < 0 \/ st.broke THEN st
    ELSE ScanLoop(ScanBody(ScanBody(st, d, n), d, n), d, n - 1)

\* the loop: the body on the blocks bn-1, bn-2, ... until break or block 0;
\* scan_steps counts the iterations
ScanLoop(st, d, n) ==
    IF n < 0 \/ st.broke THEN st
    ELSE ScanLoop(ScanBody(st, d, n), d, n - 1)

Scan(d, bn, cos) == ScanLoop(ScanInit(cos), d, bn - 1)

----------------------------------------------------------------------------
(* The indentation rules *)

\* the stack check: the brackets left open at the end of the text, quotes
\* deactivating everything up to the next same quote
\* the stack when a closing bracket finds it empty: stack[-1] raises
IndexError == <<"IndexError">>

RECURSIVE BraceStack(_, _, _)
BraceStack(t, stack, deactivate) ==
    IF t = <<>> THEN stack
    ELSE LET c   == Head(t)
             top == stack[Len(stack)]
         IN  IF deactivate # "None"
             THEN BraceStack(Tail(t), stack,
                             IF c = deactivate THEN "None" ELSE deactivate)
             ELSE IF c \in {"'", "\""} THEN BraceStack(Tail(t), stack, c)
             ELSE IF c \in Openers
                  THEN BraceStack(Tail(t), Append(stack, c), deactivate)
             ELSE IF c \in Closers /\ stack = <<>> THEN IndexError
             ELSE IF \/ c = ")" /\ top = "("
                     \/ c = "]" /\ top = "["
                     \/ c = "}" /\ top = "{"
                  THEN BraceStack(Tail(t), SubSeq(stack, 1, Len(stack) - 1),
                                  deactivate)
             ELSE BraceStack(Tail(t), stack, deactivate)

\* variant without the dummy element
StackBottom_empty == <<>>

\* stack = ['dummy']: "Dummy elemet to avoid index errors"
StackBottom == <<"dummy">>

\* all braces matching: len(stack) == 1
AllBracesMatching(t) == Len(BraceStack(t, StackBottom, "None")) = 1

\* the stack walk raises
StackRaises(t) == BraceStack(t, StackBottom, "None") = IndexError

\* re.search(r'[\(|\{|\[]\s*$', prevtext) is not None: the character class
\* holds '(', '|', '{' and '['
HangingRegexMatches(t) ==
    LET s == RStrip(t) IN s # <<>> /\ s[Len(s)] \in {"(", "|", "{", "["}

\* prevtext is long enough for the hanging indentation
LongEnoughToHang(t, ic, tsw) ==
    \/ ic = <<"\t">> /\ tsw * 2 < Len(t)
    \/ StartsWith(ic, <<" ">>) /\ Len(ic) * 2 < Len(t)

rlmap == [p \in Closers |->
              IF p = ")" THEN "(" ELSE IF p = "]" THEN "[" ELSE "{"]

\* the orders in which "for par in rlmap" can visit the keys of the dict
\* literal: insertion order where dicts keep it, any fixed order otherwise
RlmapOrders ==
    {o \in [1..3 -> Closers] : \A i, j \in 1..3 : i # j => o[i] # o[j]}

\* the order of the dict literal
InsertionOrder == <<")", "]", "}">>

\* for _i in range(k): cut at the last opening bracket, or break
RECURSIVE CutAtOpeners(_, _, _)
CutAtOpeners(t, open, k) ==
    IF k <= 0 THEN t
    ELSE LET i_left == RFind(t, open)
         IN  IF i_left # -1 THEN CutAtOpeners(Prefix(t, i_left), open, k - 1)
             ELSE t

\* the body of "for par in rlmap" for one par
StripPar(t, par) ==
    LET i_right == RFind(t, par)
    IN  IF i_right # -1
        THEN LET t1 == Prefix(t, i_right)
             IN  CutAtOpeners(t1, rlmap[par], Count(t1, par) + 1)
        ELSE t

\* iterations of the inner loop run by CutAtOpeners
RECURSIVE CutSteps(_, _, _)
CutSteps(t, open, k) ==
    IF k <= 0 THEN 0
    ELSE LET i_left == RFind(t, open)
         IN  IF i_left # -1 THEN 1 + CutSteps(Prefix(t, i_left), open, k - 1)
             ELSE 1

\* iterations of the inner loop for one par
ParSteps(t, par) ==
    LET i_right == RFind(t, par)
    IN  IF i_right # -1
        THEN LET t1 == Prefix(t, i_right)
             IN  CutSteps(t1, rlmap[par], Count(t1, par) + 1)
        ELSE 0

\* iterations of the inner loop over the whole "for par in rlmap" loop
StripSteps(t, order) ==
    LET t1 == StripPar(t, order[1])
        t2 == StripPar(t1, order[2])
    IN  ParSteps(t, order[1]) + ParSteps(t1, order[2]) + ParSteps(t2, order[3])

\* prevtext after the whole "for par in rlmap" loop
StripPars(t, order) == StripPar(StripPar(StripPar(t, order[1]), order[2]),
                                order[3])

\* "return" first with as many opening as closing brackets
BalancedReturn(t) ==
    FirstWordIsReturn(t) /\ SplitOpenLen(t) = SplitCloseLen(t)

\* the condition of the "Unindent" branch
UnindentCondition(t) ==
    /\ is_python_like
    /\ \/ EndsWith(t, kw_continue)
       \/ EndsWith(t, kw_break)
       \/ EndsWith(t, kw_pass)
       \/ BalancedReturn(t)

\* variant that reads the indentation of line 0 as well
BaseIndent_anyLine(prevline, d, tsw) ==
    IF prevline # -1 THEN get_block_indentation(d, prevline, tsw) ELSE 0

\* "if prevline: ... else: correct_indent = 0": the indentation the rules
\* start from; prevline is None (-1) or a block number
BaseIndent(prevline, d, tsw) ==
    IF prevline # -1 /\ prevline # 0
    THEN get_block_indentation(d, prevline, tsw)
    ELSE 0

\* "# Indent": correct_indent += unit
Indented(c, unit) == c + unit

\* variant of the unindent step that stops at column 0
Unindented_clamped(c, unit) == Max2(c - unit, 0)

\* "# Unindent": correct_indent -= unit
Unindented(c, unit) == c - unit

\* variant of the hanging indent that adds a single unit
HangingIndented_oneUnit(c, unit) == c + unit

\* "# Hanging indent": correct_indent += unit * 2
HangingIndented(c, unit) == c + unit * 2

\* lines 2398-2484: correct_indent from the scan's result; the record holds
\* correct_indent, prevtext as the bracket rule leaves it, and the rule taken
Adjust(sc, d, ic, tsw, order) ==
    LET unit == IndentUnit(ic, tsw)
        base == BaseIndent(sc.prevline, d, tsw)
        c1   == IF sc.add_indent THEN Indented(base, unit) ELSE base
        t    == sc.prevtext
        r0   == [correct_indent |-> c1, prevtext |-> t,
                 rule |-> IF sc.add_indent THEN "add_indent" ELSE "copy"]
    IN  IF sc.comment_or_string THEN r0
        ELSE IF EndsWith(t, <<":">>) /\ is_python_like
             THEN [r0 EXCEPT !.correct_indent = Indented(c1, unit),
                             !.rule = "indent"]
        ELSE IF UnindentCondition(t)
             THEN [r0 EXCEPT !.correct_indent = Unindented(c1, unit),
                             !.rule = "unindent"]
        ELSE IF SplitOpenLen(t) > 1
             THEN IF StackRaises(t)
                  THEN [r0 EXCEPT !.rule = "IndexError"]
                  ELSE IF AllBracesMatching(t)
                  THEN [r0 EXCEPT !.rule = "matching"]
                  ELSE IF HangingRegexMatches(t) /\ LongEnoughToHang(t, ic, tsw)
                  THEN [r0 EXCEPT !.correct_indent = HangingIndented(c1, unit),
                                  !.rule = "hanging"]
                  ELSE LET t2 == StripPars(t, order)
                       IN  [correct_indent |->
                                IF Strip(t2) # <<>>
                                THEN IF SplitOpenLen(t2) > 1
                                     THEN Len(t2) - LastExprLen(t2)
                                     ELSE Len(t2)
                                ELSE c1,
                            prevtext |-> t2,
                            rule |-> "align"]
        ELSE r0

\* lines 2486-2500: the check against the line just above the cursor
PostCheckApplies(sc, adj, d, bn, tsw) ==
    /\ sc.diff_paren = 0 /\ sc.diff_brack = 0 /\ sc.diff_curly = 0
    /\ ~EndsWith(adj.prevtext, <<":">>)
    /\ sc.prevline > 0
    /\ get_block_indentation(d, bn - 1, tsw)
           < get_block_indentation(d, sc.prevline, tsw)
    /\ \/ Strip(get_text_line(d, bn)) # <<>>
       \/ Strip(get_text_line(d, bn - 1)) = <<>>

\* variant that rounds down to a multiple of the unit
PostCheckIndent_roundDown(d, bn, ic, tsw) ==
    LET cur_indent == get_block_indentation(d, bn - 1, tsw)
    IN  cur_indent - (cur_indent % Len(ic))

PostCheckIndent(d, bn, ic, tsw) ==
    LET cur_indent == get_block_indentation(d, bn - 1, tsw)
    IN  IF cur_indent % Len(ic) = 0 THEN cur_indent
        ELSE cur_indent + (Len(ic) - (cur_indent % Len(ic)))

\* all locals of fix_indent_smart at line 2502
Compute(d, bn, ic, tsw, cos, order) ==
    LET sc   == Scan(d, bn, cos)
        adj  == Adjust(sc, d, ic, tsw, order)
        post == PostCheckApplies(sc, adj, d, bn, tsw)
    IN  [prevline |-> sc.prevline,
         anchor_text |-> sc.prevtext,
         prevtext |-> adj.prevtext,
         diff_paren |-> sc.diff_paren,
         diff_brack |-> sc.diff_brack,
         diff_curly |-> sc.diff_curly,
         add_indent |-> sc.add_indent,
         comment_or_string |-> sc.comment_or_string,
         broke |-> sc.broke,
         scan_steps |-> sc.scan_steps,
         strip_steps |-> IF adj.rule = "align"
                         THEN StripSteps(sc.prevtext, order) ELSE 0,
         rule |-> adj.rule,
         post_check |-> post,
         indent |-> get_block_indentation(d, bn, tsw),
         correct_indent |-> IF post THEN PostCheckIndent(d, bn, ic, tsw)
                            ELSE adj.correct_indent]

----------------------------------------------------------------------------
(* Rewriting the indentation of the cursor line (lines 2507-2520) *)

\* QTextDocument.toPlainText(): the blocks joined by the separator
RECURSIVE PlainText(_)
PlainText(d) ==
    IF Len(d) = 0 THEN <<>>
    ELSE IF Len(d) = 1 THEN d[1]
    ELSE d[1] \o <<"\n">> \o PlainText(Tail(d))

\* the blocks of a plain text
RECURSIVE Blocks(_)
Blocks(t) ==
    LET i == Find(t, "\n")
    IN  IF i = -1 THEN <<t>>
        ELSE <<Prefix(t, i)>> \o Blocks(Suffix(t, i + 1))

\* position of the start of block n: cursor.movePosition(StartOfBlock)
RECURSIVE BlockPosition(_, _)
BlockPosition(d, n) ==
    IF n <= 0 THEN 0 ELSE Len(d[n]) + 1 + BlockPosition(d, n - 1)

\* the text inserted at the start of the block
IndentText(correct_indent, ic, tsw) ==
    IF ic = <<"\t">>
    THEN Repeat("\t", correct_indent \div tsw)
             \o Repeat(" ", correct_indent % tsw)
    ELSE Repeat(" ", correct_indent)

\* setPosition(position + indent, KeepAnchor); removeSelectedText();
\* insertText(indent_text).  QTextCursor.setPosition leaves the cursor where
\* it is when the position is past the end of the document.
ReplaceIndentation(d, bn, indent, correct_indent, ic, tsw) ==
    LET text    == PlainText(d)
        start   == BlockPosition(d, bn)
        nchars  == IF ic = <<"\t">> THEN indent \div tsw ELSE indent
        stop    == IF start + nchars > Len(text) THEN start
                   ELSE start + nchars
    IN  Blocks(Prefix(text, start)
                   \o IndentText(correct_indent, ic, tsw)
                   \o Suffix(text, stop))

\* "No indentation fix is necessary"
NoFixNecessary(forward, indent, correct_indent) ==
    \/ forward /\ indent >= correct_indent
    \/ ~forward /\ indent <= correct_indent

\* the value returned: "True", "False", or "None" when the function falls
\* off its end; "IndexError" when the stack walk raised
ReturnValue(forward, l) ==
    IF l.rule = "IndexError" THEN "IndexError"
    ELSE IF NoFixNecessary(forward, l.indent, l.correct_indent) THEN "False"
    ELSE IF l.correct_indent >= 0 THEN "True"
    ELSE "None"

----------------------------------------------------------------------------
(* The documents the editor is opened on *)

\* lines before the anchor line
MaxHead == 1

\* blank lines between the anchor line and the cursor line
MaxGap == 1

\* continuation lines of a call spread over several lines
MaxDeep == 1

\* number of consecutive fix_indent_smart calls
MaxCalls == 2

\* the default indent_chars and tab_stop_width_spaces of setup_editor
DefaultIndentWidth == 4

DefaultTabStopWidth == 4

Spaces(n) == Repeat(" ", n)

t_blank == <<>>

t_x == <<"x">>

t_def == <<"d", "e", "f", " ", "f", "(", ")", ":">>

t_pass == kw_pass

t_pass_comment == kw_pass \o <<" ", "#">>

t_return == kw_return \o <<" ", "f", "(", "x", ")">>

t_call == <<"a", " ", "=", " ", "f", "(">>

t_list == <<"x", " ", "=", " ", "[", "1", ",">>

t_calls == <<"f", "(", "a", ")", "(", "b", ",", " ", "c">>

t_open2 == <<"f", "(", "g", "(", "a", ",">>

t_close == <<"b", ")">>

t_open == <<"f", "(">>

t_tabbed == <<"\t", "x", "y", "z">>

t_return1 == kw_return \o <<" ", "1">>

t_unopened == <<")", "(">>

t_comment == <<"#", " ", "c">>

t_if_hash == <<"i", "f", " ", "x", " ", "=", "=", " ", "\"", "#", "\"", ":">>

\* everyday lines: statements at the indentations 0 and 4
Lines ==
    {t_blank, t_x, t_def, t_pass, t_call, t_list, t_calls, t_if_hash,
     t_unopened}
        \cup {Spaces(DefaultIndentWidth) \o b :
                  b \in {t_x, t_def, t_pass, t_pass_comment, t_return,
                         t_call, t_comment, t_return1}}
        \cup {<<"\t">> \o t_pass}

\* lines before the anchor line, blank lines after it
HeadLines == {t_blank, t_x}

GapLines == {t_blank}

\* a deeply indented line, and the lines that follow it before the cursor
DeepLines == {Spaces(8) \o t_x, t_open2, Spaces(12) \o t_open}

InnerLines == {Spaces(2), Spaces(8) \o t_close}

CursorLines == {t_blank, t_x, Spaces(8) \o t_x, t_tabbed}

\* sequences of at most n lines of a pool
Above(pool, n) == UNION {[1..k -> pool] : k \in 0..n}

\* the lines above the cursor line: nothing, a statement with lines before
\* it and blank lines after it, or a deeply indented line with the lines
\* that follow it
Documents ==
    {<<>>}
        \cup {h \o <<a>> \o g : h \in Above(HeadLines, MaxHead), a \in Lines,
                                g \in Above(GapLines, MaxGap)}
        \cup {h \o <<o>> \o m : h \in Above(HeadLines, MaxHead),
                                o \in DeepLines,
                                m \in Above(InnerLines, MaxDeep)}

\* (indent_chars, tab_stop_width_spaces) settings of setup_editor
Settings ==
    {<<Spaces(DefaultIndentWidth), DefaultTabStopWidth>>,
     <<<<"\t">>, DefaultTabStopWidth>>}

----------------------------------------------------------------------------
(* The state machine *)

NoLocals == Compute(<<t_blank>>, 0, Spaces(DefaultIndentWidth),
                    DefaultTabStopWidth, FALSE, InsertionOrder)

\* completion_args = None (line 516)
NoArgs == [set |-> FALSE, position |-> 0, automatic |-> FALSE]

\* no response was handled yet
NoResponse ==
    [request |-> [id |-> -1, position |-> 0, automatic |-> FALSE],
     completions |-> -1, shown |-> FALSE, position |-> 0,
     automatic |-> FALSE]

\* the completion state after __init__: lines 499, 516, 527
NoCompletion ==
    /\ lsp_ready = FALSE
    /\ completion_args = NoArgs
    /\ word_tokens = 0
    /\ text_version = 0
    /\ cursor_position = 0
    /\ requests = {}
    /\ handled = NoResponse

\* no comment function was called
NoToggle ==
    [call |-> "none", by |-> "none", first_line |-> 0, last_line |-> 0,
     selected |-> FALSE, hung |-> FALSE, before |-> <<>>, edits |-> 0]

\* nothing linted, no LSP service started, nothing to undo
NoServices ==
    /\ lint = [results |-> <<>>, processed |-> FALSE, warnings |-> <<>>,
               returned |-> FALSE]
    /\ lsp_log = [starts |-> 0, parsed |-> 0, did_open |-> 0,
                  document_opened |-> FALSE]
    /\ history = [undo |-> <<>>, redo |-> <<>>]

\* no selection, no comment function called
NoComment ==
    /\ anchor = 0
    /\ toggled = NoToggle

\* no go_to_... call was made
NoNavigation ==
    [op |-> "none", pc |-> "idle", start |-> 0, block |-> 0, steps |-> 0]

\* the editor holds a document, the cursor is on its last line
InitWith(above, cursor, settings) ==
    /\ \E a \in above, c \in cursor :
         /\ doc = a \o <<c>>
         /\ block_nb = Len(a)
    /\ \E s \in settings : indent_chars = s[1] /\ tab_stop_width_spaces = s[2]
    /\ ncalls = 0
    /\ args = [forward |-> TRUE, comment_or_string |-> FALSE]
    /\ loc = NoLocals
    /\ ret = "None"
    /\ userdata = [i \in 1..Len(doc) |->
                       [data |-> FALSE, code_analysis |-> <<>>,
                        todo |-> FALSE]]
    /\ nav = NoNavigation
    /\ NoCompletion
    /\ NoComment
    /\ NoServices

Init == InitWith(Documents, CursorLines, Settings)

\* fix_indent_smart(forward, comment_or_string)
fix_indent_smart(forward, comment_or_string) ==
    /\ ncalls < MaxCalls
    /\ \E l0 \in {Compute(doc, block_nb, indent_chars, tab_stop_width_spaces,
                          comment_or_string, InsertionOrder)} :
       \E order \in IF l0.rule = "align" THEN RlmapOrders
                    ELSE {InsertionOrder} :
       \E l \in {IF order = InsertionOrder THEN l0
                 ELSE Compute(doc, block_nb, indent_chars,
                              tab_stop_width_spaces, comment_or_string,
                              order)} :
       \E r \in {ReturnValue(forward, l)} :
         /\ loc' = l
         /\ ret' = r
         /\ doc' = IF r = "True"
                   THEN ReplaceIndentation(doc, block_nb, l.indent,
                                           l.correct_indent, indent_chars,
                                           tab_stop_width_spaces)
                   ELSE doc
    /\ args' = [forward |-> forward, comment_or_string |-> comment_or_string]
    /\ ncalls' = ncalls + 1
    /\ UNCHANGED <<block_nb, indent_chars, tab_stop_width_spaces,
                   nav_vars, completion_vars, comment_vars, service_vars>>

Next ==
    \E forward \in BOOLEAN, comment_or_string \in BOOLEAN :
        fix_indent_smart(forward, comment_or_string)

Spec == Init /\ [][Next]_vars

----------------------------------------------------------------------------
(* Going to the next warning, the previous warning, the next todo *)

\* blocks of the documents of this part
MaxBlocks == 3

\* iterations of a search loop that are followed
MaxSteps == 5

\* block.userData() of a block without user data (None)
NoData == [data |-> FALSE, code_analysis |-> <<>>, todo |-> FALSE]

\* an item of code_analysis: (source, code, severity, message)
StaleWarning == <<"", "E", 1, 0>>

\* block.userData(): None, or data with or without code_analysis and todo
UserData ==
    {NoData}
        \cup [data : {TRUE}, code_analysis : {<<>>, <<StaleWarning>>},
              todo : BOOLEAN]

\* "data and data.code_analysis"
HasWarning(data) == data.data /\ data.code_analysis # <<>>

\* "data and data.todo"
HasTodo(data) == data.data /\ data.todo

\* a document of plain lines, user data on its blocks, the cursor anywhere
NavInit ==
    /\ \E n \in 1..MaxBlocks :
         /\ doc = [i \in 1..n |-> t_x]
         /\ userdata \in [1..n -> UserData]
         /\ block_nb \in 0..(n - 1)
    /\ indent_chars = Spaces(DefaultIndentWidth)
    /\ tab_stop_width_spaces = DefaultTabStopWidth
    /\ ncalls = 0
    /\ args = [forward |-> TRUE, comment_or_string |-> FALSE]
    /\ loc = NoLocals
    /\ ret = "None"
    /\ nav = NoNavigation
    /\ NoCompletion
    /\ NoComment
    /\ NoServices

\* entry of a go_to_... function: block = self.textCursor().block()
NavCall(op) ==
    /\ nav.pc = "idle"
    /\ nav.op = "none"
    /\ nav' = [op |-> op, pc |-> "loop", start |-> block_nb,
               block |-> block_nb, steps |-> 0]
    /\ UNCHANGED <<doc, block_nb, userdata, indent_vars, completion_vars,
                   comment_vars, service_vars>>

\* the block after b, the first block after the last one
NextBlock(b) == IF b + 1 < Len(doc) THEN b + 1 ELSE 0

\* the block before b, the last block before the first one
PreviousBlock(b) == IF b > 0 THEN b - 1 ELSE Len(doc) - 1

\* one iteration of "while True": move, read the data, break or go on; after
\* the break, go_to_line(block.blockNumber()+1) and return
NavStep(op, b, found) ==
    /\ nav.pc = "loop"
    /\ nav.op = op
    /\ nav.steps < MaxSteps
    /\ IF found
       THEN /\ nav' = [nav EXCEPT !.block = b, !.steps = @ + 1,
                                  !.pc = "idle"]
            /\ block_nb' = b
       ELSE /\ nav' = [nav EXCEPT !.block = b, !.steps = @ + 1]
            /\ UNCHANGED block_nb
    /\ UNCHANGED <<doc, userdata, indent_vars, completion_vars, comment_vars, service_vars>>

go_to_next_warning == NavCall("next_warning")

go_to_next_warning_loop ==
    LET b == NextBlock(nav.block)
    IN  NavStep("next_warning", b, HasWarning(userdata[b + 1]))

go_to_previous_warning == NavCall("previous_warning")

go_to_previous_warning_loop ==
    LET b == PreviousBlock(nav.block)
    IN  NavStep("previous_warning", b, HasWarning(userdata[b + 1]))

go_to_next_todo == NavCall("next_todo")

go_to_next_todo_loop ==
    LET b == NextBlock(nav.block)
    IN  NavStep("next_todo", b, HasTodo(userdata[b + 1]))

NavNext ==
    \/ go_to_next_warning
    \/ go_to_next_warning_loop
    \/ go_to_previous_warning
    \/ go_to_previous_warning_loop
    \/ go_to_next_todo
    \/ go_to_next_todo_loop

NavSpec == NavInit /\ [][NavNext]_vars

----------------------------------------------------------------------------
(* Completion: do_completion, process_completion, receive_text_tokens *)

\* do_completion calls made
MaxRequests == 2

\* cursor positions 0..MaxPosition
MaxPosition == 1

\* params['params'] of a response: None, or a list of so many completions
Completions == {-1, 0, 1}

\* word_tokens: so many entries, none of them the word under the cursor
Tokens == {0, 1}

\* the editor of a one-line document; the server is ready or not
CompletionInit ==
    /\ doc = <<t_x>>
    /\ block_nb = 0
    /\ indent_chars = Spaces(DefaultIndentWidth)
    /\ tab_stop_width_spaces = DefaultTabStopWidth
    /\ ncalls = 0
    /\ args = [forward |-> TRUE, comment_or_string |-> FALSE]
    /\ loc = NoLocals
    /\ ret = "None"
    /\ userdata = [i \in 1..Len(doc) |-> NoData]
    /\ nav = NoNavigation
    /\ lsp_ready \in BOOLEAN
    /\ completion_args = NoArgs
    /\ word_tokens = 0
    /\ text_version = 0
    /\ cursor_position \in 0..MaxPosition
    /\ requests = {}
    /\ handled = NoResponse
    /\ NoComment
    /\ NoServices

\* variant that keeps the arguments
ConsumeArgs_kept(a) == a

\* self.completion_args = None
ConsumeArgs(a) == NoArgs

\* the completions of process_completion: the response's, and for a manual
\* request the word tokens that are not among them; -1 stands for None
MergedCompletions(completions, automatic, tokens, same_list) ==
    IF automatic THEN completions
    ELSE IF same_list THEN Max2(completions, 0)
    ELSE Max2(completions, 0) + tokens

\* process_completion(params): the new completion_args and the list shown;
\* same_list says that params['params'] is the word_tokens list itself
ProcessCompletion(a, completions, tokens, same_list) ==
    IF ~a.set
    THEN [completion_args |-> a, shown |-> FALSE, position |-> 0,
          automatic |-> FALSE]
    ELSE [completion_args |-> ConsumeArgs(a),
          shown |-> MergedCompletions(completions, a.automatic, tokens,
                                      same_list) > 0,
          position |-> a.position,
          automatic |-> a.automatic]

\* the user moves the cursor or types
MoveCursor ==
    /\ \E p \in 0..MaxPosition : p # cursor_position /\ cursor_position' = p
    /\ UNCHANGED <<lsp_ready, completion_args, word_tokens, text_version,
                   requests, handled>>
    /\ UNCHANGED <<doc, block_nb, indent_vars, nav_vars, comment_vars, service_vars>>

\* start_lsp_services calls made
MaxStarts == 2

\* the @request wrapper runs the function and emits the request when the
\* server is ready
RequestRunsIf(ready) == ready

RequestRuns == RequestRunsIf(lsp_ready)

\* variant that starts the integration at every call
StartsIntegration_always(ready) == TRUE

\* start_lsp_services: "if not self.lsp_ready"
StartsIntegration(ready) == ~ready

\* start_lsp_services(config): parse_lsp_config, lsp_ready,
\* document_did_open, whose request is sent with lsp_ready already True
start_lsp_services ==
    /\ lsp_log.starts < MaxStarts
    /\ IF StartsIntegration(lsp_ready)
       THEN /\ lsp_ready' = TRUE
            /\ lsp_log' =
                   [starts |-> lsp_log.starts + 1,
                    parsed |-> lsp_log.parsed + 1,
                    did_open |-> IF RequestRunsIf(TRUE)
                                 THEN lsp_log.did_open + 1
                                 ELSE lsp_log.did_open,
                    document_opened |-> RequestRunsIf(TRUE)
                                            \/ lsp_log.document_opened]
       ELSE /\ lsp_log' = [lsp_log EXCEPT !.starts = @ + 1]
            /\ UNCHANGED lsp_ready
    /\ UNCHANGED <<completion_args, word_tokens, text_version,
                   cursor_position, requests, handled>>
    /\ UNCHANGED <<doc, block_nb, indent_vars, nav_vars, comment_vars,
                   lint, history>>

stop_lsp_services ==
    /\ lsp_ready
    /\ lsp_ready' = FALSE
    /\ UNCHANGED <<completion_args, word_tokens, text_version,
                   cursor_position, requests, handled>>
    /\ UNCHANGED <<doc, block_nb, indent_vars, nav_vars, comment_vars, service_vars>>

\* do_completion(automatic): document_did_change, completion_args, the
\* request to the server
do_completion(automatic) ==
    /\ RequestRuns
    /\ text_version < MaxRequests
    /\ text_version' = text_version + 1
    /\ completion_args' = [set |-> TRUE, position |-> cursor_position,
                           automatic |-> automatic]
    /\ requests' = requests \cup
                       {[id |-> text_version + 1,
                         position |-> cursor_position,
                         automatic |-> automatic]}
    /\ UNCHANGED <<lsp_ready, word_tokens, cursor_position, handled>>
    /\ UNCHANGED <<doc, block_nb, indent_vars, nav_vars, comment_vars, service_vars>>

\* process_completion(params): the response to request r arrives
process_completion(r, completions) ==
    /\ r \in requests
    /\ LET p == ProcessCompletion(completion_args, completions, word_tokens,
                                  FALSE)
       IN  /\ completion_args' = p.completion_args
           /\ handled' = [request |-> r,
                          completions |-> completions,
                          shown |-> p.shown,
                          position |-> p.position,
                          automatic |-> p.automatic]
    /\ requests' = requests \ {r}
    /\ UNCHANGED <<lsp_ready, word_tokens, text_version, cursor_position>>
    /\ UNCHANGED <<doc, block_nb, indent_vars, nav_vars, comment_vars, service_vars>>

\* receive_text_tokens(tokens)
receive_text_tokens(tokens) ==
    /\ word_tokens' = tokens
    /\ LET a == IF ~lsp_ready
                THEN [set |-> TRUE, position |-> cursor_position,
                      automatic |-> FALSE]
                ELSE completion_args
           p == IF ~lsp_ready
                THEN ProcessCompletion(a, tokens, tokens, TRUE)
                ELSE [completion_args |-> a, shown |-> FALSE,
                      position |-> 0, automatic |-> FALSE]
       IN  /\ completion_args' = p.completion_args
           /\ handled' = [request |-> [id |-> 0,
                                       position |-> cursor_position,
                                       automatic |-> FALSE],
                          completions |-> tokens,
                          shown |-> p.shown,
                          position |-> p.position,
                          automatic |-> p.automatic]
    /\ UNCHANGED <<lsp_ready, text_version, cursor_position, requests>>
    /\ UNCHANGED <<doc, block_nb, indent_vars, nav_vars, comment_vars, service_vars>>

CompletionNext ==
    \/ MoveCursor
    \/ start_lsp_services
    \/ stop_lsp_services
    \/ \E automatic \in BOOLEAN : do_completion(automatic)
    \/ \E r \in requests, c \in Completions : process_completion(r, c)
    \/ \E t \in Tokens : receive_text_tokens(t)

CompletionSpec == CompletionInit /\ [][CompletionNext]_vars

----------------------------------------------------------------------------
(* Comments: add_prefix, remove_prefix, comment, uncomment, toggle_comment *)

\* lines of a document
MaxLines == 2

\* leading spaces of a line
MaxSpaces == 2

\* comment functions called
MaxEdits == 2

\* an indent width narrower than the default
NarrowIndentWidth == 2

\* the comment string of Python
comment_string == <<"#">>

\* the number of the block that holds position p
BlockOfPos(d, p) ==
    CHOOSE b \in 0..(Len(d) - 1) :
        /\ BlockPosition(d, b) <= p
        /\ (b = Len(d) - 1 \/ p < BlockPosition(d, b + 1))

\* position of the end of block b
EndOfBlock(d, b) == BlockPosition(d, b) + Len(d[b + 1])

\* cursor.insertText(t) at position p
InsertText(d, p, t) == Blocks(Prefix(PlainText(d), p) \o t \o Suffix(PlainText(d), p))

\* cursor.removeSelectedText() of the n characters from position p
RemoveText(d, p, n) == Blocks(Prefix(PlainText(d), p) \o Suffix(PlainText(d), p + n))

\* where a position q of the editor's cursor is after t was inserted at p
ShiftInsert(q, p, t) == IF q >= p THEN q + Len(t) ELSE q

\* where a position q of the editor's cursor is after n characters were
\* removed from p
ShiftRemove(q, p, n) ==
    IF q >= p + n THEN q - n ELSE IF q > p THEN p ELSE q

\* get_character(position): the character at the position, '' at the end
get_character(d, p) ==
    IF p < Len(PlainText(d)) THEN <<PlainText(d)[p + 1]>> ELSE <<>>

\* s.find(t)
FindText(s, t) ==
    LET at == {i \in 0..(Len(s) - Len(t)) : SubSeq(s, i + 1, i + Len(t)) = t}
    IN  IF at = {} THEN -1
        ELSE CHOOSE i \in at : \A j \in at : i <= j

\* '#' in prefix
HasHash(prefix) == Count(prefix, "#") > 0

\* s.isspace()
IsAllSpace(s) == Len(s) > 0 /\ LeadingSpaces(s) = Len(s)

\* has_selected_text()
has_selected_text(a, p) == a # p

\* movePosition(NextWord) from the start of a block that begins with a space
NextWord(d, p) == p + LeadingSpaces(d[BlockOfPos(d, p) + 1])

\* movePosition(Right, n) from position p
MoveRight(d, p, n) == Min2(p + Max2(n, 0), Len(PlainText(d)))

\* the lengths of re.findall('\s+', line_text), from index i on
RECURSIVE SpaceGroups(_, _)
SpaceGroups(s, i) ==
    IF i > Len(s) THEN <<>>
    ELSE IF IsSpace(s[i])
         THEN <<SpacesFrom(s, i)>> \o SpaceGroups(s, i + SpacesFrom(s, i))
         ELSE SpaceGroups(s, i + 1)

\* __number_of_spaces(line_text, group); -1 stands for None
number_of_spaces(line_text, group) ==
    LET spaces == SpaceGroups(line_text, 1)
    IN  IF Len(spaces) - 1 >= group THEN spaces[group + 1] ELSE -1

\* __even_number_of_spaces(line_text), None counted as false
even_number_of_spaces(line_text, ic) ==
    LET spaces == SpaceGroups(line_text, 1)
    IN  Len(spaces) - 1 >= 0 /\ spaces[1] % Len(ic) = 0

\* __remove_prefix: the prefix was inserted with a space after it, judged
\* by the spaces to its left and right
InsertedWithSpace(sws, left_spaces, right_number_spaces) ==
    \/ (right_number_spaces = 1 /\ (left_spaces \/ ~sws))
    \/ (~sws /\ right_number_spaces % 2 # 0)
    \/ (left_spaces /\ right_number_spaces % 2 # 0)

\* __remove_prefix(prefix, cursor, line_text) with the cursor at position
\* cur: the document, the cursor, and the removal made
remove_prefix_line(d, cur, prefix, line_text, ic) ==
    LET sws == StartsWith(line_text, <<" ">>)
        left_spaces == sws /\ even_number_of_spaces(line_text, ic)
        right_number_spaces ==
            IF sws THEN number_of_spaces(line_text, 1)
            ELSE number_of_spaces(line_text, 0)
        at == MoveRight(d, cur, FindText(line_text, prefix))
        with_space ==
            \/ (Strip(prefix) # <<>>
                  /\ StartsWith(LStrip(line_text), prefix \o <<" ">>))
            \/ (StartsWith(line_text, prefix \o <<" ">>) /\ HasHash(prefix))
        without_space ==
            \/ (Strip(prefix) # <<>> /\ StartsWith(LStrip(line_text), prefix))
            \/ StartsWith(line_text, prefix)
        n == IF with_space
             THEN IF InsertedWithSpace(sws, left_spaces, right_number_spaces)
                  THEN Len(prefix) + 1
                  ELSE Len(prefix)
             ELSE IF without_space THEN Len(prefix) ELSE 0
    IN  IF n = 0
        THEN [doc |-> d, cur |-> cur, at |-> cur, n |-> 0]
        ELSE [doc |-> RemoveText(d, at, n), cur |-> at, at |-> at,
              n |-> Min2(n, Len(PlainText(d)) - at)]

\* the loop of __spaces_for_prefix from cursor position cur; hung when the
\* loop cannot end: at block 0 PreviousBlock fails, and EndOfBlock puts the
\* cursor back at or after start_pos
RECURSIVE SpacesLoop(_, _, _, _)
SpacesLoop(d, cur, start_pos, number_spaces) ==
    IF cur < start_pos
    THEN [number_spaces |-> number_spaces, hung |-> FALSE]
    ELSE LET b == BlockOfPos(d, cur)
             line_text == d[b + 1]
             left_number_spaces ==
                 IF StartsWith(line_text, <<" ">>)
                 THEN number_of_spaces(line_text, 0)
                 ELSE 0
             ns == IF /\ (number_spaces = -1
                            \/ number_spaces > left_number_spaces)
                      /\ ~IsAllSpace(line_text)
                      /\ line_text # <<>>
                   THEN left_number_spaces
                   ELSE number_spaces
         IN  IF start_pos = 0 /\ b = 0
             THEN [number_spaces |-> ns, hung |-> FALSE]
             ELSE IF b = 0
             THEN [number_spaces |-> ns, hung |-> TRUE]
             ELSE SpacesLoop(d, EndOfBlock(d, b - 1), start_pos, ns)

\* where add_prefix, __spaces_for_prefix and remove_prefix start: end_pos,
\* or the block before it when end_pos is at the start of a block
LastPosition(d, start_pos, end_pos) ==
    LET b == BlockOfPos(d, end_pos)
    IN  IF end_pos = BlockPosition(d, b)
        THEN Max2(BlockPosition(d, b - 1), start_pos)
        ELSE end_pos

\* __spaces_for_prefix() with text selected
spaces_for_prefix(d, start_pos, end_pos) ==
    SpacesLoop(d, LastPosition(d, start_pos, end_pos), start_pos, -1)

\* the loop of add_prefix over the selected lines, from cursor position cur;
\* e is the document and the editor's cursor
RECURSIVE AddLoop(_, _, _, _, _)
AddLoop(e, cur, start_pos, move_number, prefix) ==
    IF cur < start_pos THEN e
    ELSE LET d == e.doc
             b == BlockOfPos(d, cur)
             sob == BlockPosition(d, b)
             line_text == d[b + 1]
             moved == \/ /\ get_character(d, sob) = <<" ">>
                         /\ HasHash(prefix)
                         /\ ~IsAllSpace(line_text)
                      \/ /\ ~StartsWith(line_text, <<" ">>)
                         /\ line_text # <<>>
             at == IF moved THEN MoveRight(d, sob, move_number) ELSE sob
             e2 == IF moved \/ ~HasHash(prefix)
                   THEN [doc |-> InsertText(d, at, prefix),
                         anchor |-> ShiftInsert(e.anchor, at, prefix),
                         position |-> ShiftInsert(e.position, at, prefix),
                         hung |-> FALSE]
                   ELSE e
         IN  IF b = 0 THEN e2
             ELSE AddLoop(e2, EndOfBlock(e2.doc, b - 1), start_pos,
                          move_number, prefix)

\* add_prefix(prefix): the document and the editor's cursor afterwards
add_prefix(d, a, p, prefix) ==
    IF has_selected_text(a, p)
    THEN LET start_pos == Min2(a, p)
             end_pos == Max2(a, p)
             move == spaces_for_prefix(d, start_pos, end_pos)
             e == [doc |-> d, anchor |-> a, position |-> p, hung |-> FALSE]
         IN  IF move.hung THEN [e EXCEPT !.hung = TRUE]
             ELSE AddLoop(e, LastPosition(d, start_pos, end_pos), start_pos,
                          move.number_spaces, prefix)
    ELSE LET sob == BlockPosition(d, BlockOfPos(d, p))
             at == IF get_character(d, sob) = <<" ">> /\ HasHash(prefix)
                   THEN NextWord(d, sob)
                   ELSE sob
         IN  [doc |-> InsertText(d, at, prefix),
              anchor |-> ShiftInsert(a, at, prefix),
              position |-> ShiftInsert(p, at, prefix),
              hung |-> FALSE]

\* the loop of remove_prefix over the selected lines, with the cursor at
\* cur; old_pos is -1 for None
RECURSIVE RemoveLoop(_, _, _, _, _, _)
RemoveLoop(e, cur, old_pos, start_pos, prefix, ic) ==
    IF cur < start_pos \/ old_pos = cur THEN e
    ELSE LET d == e.doc
             line_text == d[BlockOfPos(d, cur) + 1]
             r == remove_prefix_line(d, cur, prefix, line_text, ic)
             e2 == [doc |-> r.doc,
                    anchor |-> ShiftRemove(e.anchor, r.at, r.n),
                    position |-> ShiftRemove(e.position, r.at, r.n),
                    hung |-> FALSE]
             b == BlockOfPos(r.doc, r.cur)
             previous == IF b = 0 THEN r.cur ELSE BlockPosition(r.doc, b - 1)
         IN  RemoveLoop(e2, previous, cur, start_pos, prefix, ic)

\* remove_prefix(prefix): the document and the editor's cursor afterwards
remove_prefix(d, a, p, prefix, ic) ==
    LET e == [doc |-> d, anchor |-> a, position |-> p, hung |-> FALSE]
    IN  IF has_selected_text(a, p)
        THEN LET start_pos == BlockPosition(d, BlockOfPos(d, Min2(a, p)))
                 last == LastPosition(d, start_pos, Max2(a, p))
             IN  RemoveLoop(e, BlockPosition(d, BlockOfPos(d, last)), -1,
                            start_pos, prefix, ic)
        ELSE LET sob == BlockPosition(d, BlockOfPos(d, p))
                 r == remove_prefix_line(d, sob, prefix,
                                         d[BlockOfPos(d, p) + 1], ic)
             IN  [doc |-> r.doc,
                  anchor |-> ShiftRemove(a, r.at, r.n),
                  position |-> ShiftRemove(p, r.at, r.n),
                  hung |-> FALSE]

\* the width of a block-comment bar
BarWidth == 79

\* __blockcomment_bar(compatibility)
blockcomment_bar(compatibility) ==
    IF compatibility
    THEN comment_string \o Repeat("=", BarWidth - Len(comment_string))
    ELSE comment_string \o <<" ">>
             \o Repeat("=", BarWidth - Len(comment_string) - 1)

\* __unblockcomment finds its first comment bar: at the cursor's block or at
\* a block before it
FindsCommentBar(d, b, compatibility) ==
    \E i \in 0..b : StartsWith(d[i + 1], blockcomment_bar(compatibility))

\* comment(): add_prefix(comment_string + ' ')
Comment(d, a, p) == add_prefix(d, a, p, comment_string \o <<" ">>)

\* uncomment(): unblockcomment() finds no bar and returns false, then
\* remove_prefix(comment_string)
Uncomment(d, a, p, ic) == remove_prefix(d, a, p, comment_string, ic)

\* toggle_comment: the first and the last line of the range
ToggleRange(d, a, p) ==
    LET start_pos == Min2(a, p)
        end_pos == Max2(a, p)
        last == BlockOfPos(d, end_pos)
    IN  [first_line |-> BlockOfPos(d, start_pos),
         last_line |-> IF end_pos = BlockPosition(d, last)
                          /\ start_pos # end_pos
                       THEN last - 1
                       ELSE last]

\* variant that uncomments a range of blank lines
ToggleUncomments_any(d, first_line, last_line) ==
    \A n \in first_line..last_line :
        \/ StartsWith(LStrip(d[n + 1]), comment_string)
        \/ LStrip(d[n + 1]) = <<>>

\* toggle_comment: the range holds only comment lines and whitespace, and
\* at least one comment line
ToggleUncomments(d, first_line, last_line) ==
    /\ \A n \in first_line..last_line :
          \/ StartsWith(LStrip(d[n + 1]), comment_string)
          \/ LStrip(d[n + 1]) = <<>>
    /\ \E n \in first_line..last_line :
          StartsWith(LStrip(d[n + 1]), comment_string)

\* the texts after the leading spaces of a line
CommentBodies == {t_blank, t_x, t_comment}

CommentLines == {Spaces(k) \o b : k \in 0..MaxSpaces, b \in CommentBodies}

\* a line with leading spaces, then lines without
CommentDocuments ==
    {<<l>> \o m : l \in CommentLines,
                  m \in UNION {[1..n -> CommentBodies] : n \in 0..(MaxLines - 1)}}

\* the editor with the cursor at the start of a document, nothing selected
CommentInit ==
    /\ doc \in CommentDocuments
    /\ block_nb = 0
    /\ indent_chars \in {Spaces(NarrowIndentWidth), Spaces(DefaultIndentWidth)}
    /\ tab_stop_width_spaces = DefaultTabStopWidth
    /\ ncalls = 0
    /\ args = [forward |-> TRUE, comment_or_string |-> FALSE]
    /\ loc = NoLocals
    /\ ret = "None"
    /\ userdata = [i \in 1..Len(doc) |-> NoData]
    /\ nav = NoNavigation
    /\ NoCompletion
    /\ NoComment
    /\ NoServices

\* the positions the user puts the cursor and the anchor at: the starts and
\* the ends of the blocks
CursorStops(d) ==
    {BlockPosition(d, b) : b \in 0..(Len(d) - 1)}
        \cup {EndOfBlock(d, b) : b \in 0..(Len(d) - 1)}

\* the user puts the cursor somewhere, selecting text forward or not,
\* before the comment functions are called
Select ==
    /\ toggled.edits = 0
    /\ \E a \in CursorStops(doc), p \in CursorStops(doc) :
         /\ a <= p
         /\ <<a, p>> # <<anchor, cursor_position>>
         /\ anchor' = a
         /\ cursor_position' = p
         /\ block_nb' = BlockOfPos(doc, p)
    /\ UNCHANGED <<doc, toggled, indent_vars, nav_vars, service_vars>>
    /\ UNCHANGED <<lsp_ready, completion_args, word_tokens, text_version,
                   requests, handled>>

\* the editor after a comment function ran: e is the document and the
\* cursor it leaves; a function that hangs leaves nothing
Edited(e, call, by) ==
    /\ doc' = e.doc
    /\ anchor' = e.anchor
    /\ cursor_position' = e.position
    /\ block_nb' = BlockOfPos(e.doc, e.position)
    /\ toggled' = [call |-> call,
                   by |-> by,
                   first_line |-> ToggleRange(doc, anchor,
                                              cursor_position).first_line,
                   last_line |-> ToggleRange(doc, anchor,
                                             cursor_position).last_line,
                   selected |-> has_selected_text(anchor, cursor_position),
                   hung |-> e.hung,
                   before |-> doc,
                   edits |-> toggled.edits + 1]
    /\ userdata' = [i \in 1..Len(e.doc) |-> NoData]
    /\ UNCHANGED <<nav, indent_vars, service_vars>>
    /\ UNCHANGED <<lsp_ready, completion_args, word_tokens, text_version,
                   requests, handled>>

\* a comment function can be called
CanEdit ==
    /\ ~toggled.hung
    /\ toggled.edits < MaxEdits
    /\ ~RequestRuns
    /\ ~FindsCommentBar(doc, BlockOfPos(doc, cursor_position), FALSE)
    /\ ~FindsCommentBar(doc, BlockOfPos(doc, cursor_position), TRUE)

comment ==
    /\ CanEdit
    /\ Edited(Comment(doc, anchor, cursor_position), "comment", "comment")

uncomment ==
    /\ CanEdit
    /\ Edited(Uncomment(doc, anchor, cursor_position, indent_chars),
              "uncomment", "uncomment")

toggle_comment ==
    /\ CanEdit
    /\ LET r == ToggleRange(doc, anchor, cursor_position)
       IN  IF ToggleUncomments(doc, r.first_line, r.last_line)
           THEN Edited(Uncomment(doc, anchor, cursor_position, indent_chars),
                       "uncomment", "toggle_comment")
           ELSE Edited(Comment(doc, anchor, cursor_position),
                       "comment", "toggle_comment")

CommentNext ==
    \/ Select
    \/ comment
    \/ uncomment
    \/ toggle_comment

CommentSpec == CommentInit /\ [][CommentNext]_vars

----------------------------------------------------------------------------
(* Linting: cleanup_code_analysis, process_code_analysis,                   *)
(* get_current_warnings                                                      *)

\* diagnostics of one result list
MaxResults == 2

\* the start lines of the diagnostics of a document of n blocks; line n is
\* past the end of the document
DiagnosticLines(n) == 0..n

\* the lists of diagnostics: the i-th diagnostic starts on line r[i] and
\* carries the message i
Results(n) ==
    UNION {[1..k -> DiagnosticLines(n)] : k \in 0..MaxResults}

\* the editor with a document of some blocks, with or without user data and
\* markers of an earlier analysis
AnalysisInit ==
    /\ \E n \in 1..MaxLines :
         /\ doc = [i \in 1..n |-> t_x]
         /\ userdata \in [1..n -> UserData]
    /\ block_nb = 0
    /\ indent_chars = Spaces(DefaultIndentWidth)
    /\ tab_stop_width_spaces = DefaultTabStopWidth
    /\ ncalls = 0
    /\ args = [forward |-> TRUE, comment_or_string |-> FALSE]
    /\ loc = NoLocals
    /\ ret = "None"
    /\ nav = NoNavigation
    /\ NoCompletion
    /\ NoComment
    /\ NoServices

\* variant that leaves the markers
cleanup_code_analysis_kept(ud) == ud

\* cleanup_code_analysis(): data.code_analysis = [] for every block that
\* has user data
cleanup_code_analysis(ud) ==
    [i \in DOMAIN ud |->
        IF ud[i].data THEN [ud[i] EXCEPT !.code_analysis = <<>>] ELSE ud[i]]

\* the item stored for the i-th diagnostic: source '', code 'E', severity
\* ERROR, message i
StoredItem(i) == <<"", "E", 1, i>>

\* the loop of process_code_analysis over the diagnostics from the i-th on
RECURSIVE StoreDiagnostics(_, _, _)
StoreDiagnostics(ud, results, i) ==
    IF i > Len(results) THEN ud
    ELSE LET b == results[i] + 1
             data == IF b \in DOMAIN ud /\ ud[b].data THEN ud[b]
                     ELSE [data |-> TRUE, code_analysis |-> <<>>,
                           todo |-> FALSE]
             stored == [data EXCEPT
                           !.code_analysis = Append(@, StoredItem(i))]
         IN  StoreDiagnostics(IF b \in DOMAIN ud
                              THEN [ud EXCEPT ![b] = stored]
                              ELSE ud,
                              results, i + 1)

process_code_analysis(results) ==
    /\ userdata' = StoreDiagnostics(cleanup_code_analysis(userdata),
                                    results, 1)
    /\ lint' = [results |-> results, processed |-> TRUE,
                warnings |-> <<>>, returned |-> FALSE]
    /\ UNCHANGED <<doc, block_nb, nav, lsp_log, history>>
    /\ UNCHANGED <<indent_vars, completion_vars, comment_vars>>

\* the [message, line number] entries of the items of a block
BlockWarnings(data, number) ==
    [k \in 1..Len(data.code_analysis) |->
        <<data.code_analysis[k][Len(data.code_analysis[k])], number + 1>>]

\* the loop of get_current_warnings from block b: it stops at the block
\* whose number + 1 is the block count
RECURSIVE WarningsFrom(_, _, _)
WarningsFrom(ud, b, line_count) ==
    IF b + 1 = line_count THEN <<>>
    ELSE (IF ud[b + 1].data /\ ud[b + 1].code_analysis # <<>>
          THEN BlockWarnings(ud[b + 1], b)
          ELSE <<>>) \o WarningsFrom(ud, b + 1, line_count)

get_current_warnings ==
    /\ ~lint.returned
    /\ lint' = [lint EXCEPT
                   !.warnings = WarningsFrom(userdata, 0, Len(doc)),
                   !.returned = TRUE]
    /\ UNCHANGED <<doc, block_nb, userdata, nav, lsp_log, history>>
    /\ UNCHANGED <<indent_vars, completion_vars, comment_vars>>

AnalysisNext ==
    \/ \E results \in Results(Len(doc)) : process_code_analysis(results)
    \/ get_current_warnings

AnalysisSpec == AnalysisInit /\ [][AnalysisNext]_vars

----------------------------------------------------------------------------
(* Text version: paste, undo, redo, with the LSP services *)

\* undo steps kept
MaxUndo == 2

\* text versions from -MaxVersion to MaxVersion
MaxVersion == 3

\* the editor after __init__, with a document of one line
LspInit ==
    /\ doc = <<t_x>>
    /\ block_nb = 0
    /\ indent_chars = Spaces(DefaultIndentWidth)
    /\ tab_stop_width_spaces = DefaultTabStopWidth
    /\ ncalls = 0
    /\ args = [forward |-> TRUE, comment_or_string |-> FALSE]
    /\ loc = NoLocals
    /\ ret = "None"
    /\ userdata = [i \in 1..Len(doc) |-> NoData]
    /\ nav = NoNavigation
    /\ NoCompletion
    /\ NoComment
    /\ NoServices

\* document_did_change(): the text version after the call
DidChange(version, ready) ==
    IF RequestRunsIf(ready) THEN version + 1 ELSE version

\* the document and the cursor, as an undo or redo step keeps them
Snapshot == [doc |-> doc, position |-> cursor_position]

\* the editor with the document and the cursor of a snapshot
Restored(snapshot) ==
    /\ doc' = snapshot.doc
    /\ cursor_position' = snapshot.position
    /\ block_nb' = BlockOfPos(snapshot.doc, snapshot.position)

\* paste(): the clipboard text is inserted at the cursor, then
\* document_did_change(text)
paste(text) ==
    /\ Len(history.undo) < MaxUndo
    /\ text_version < MaxVersion
    /\ doc' = InsertText(doc, cursor_position, text)
    /\ cursor_position' = cursor_position + Len(text)
    /\ block_nb' = BlockOfPos(doc', cursor_position')
    /\ history' = [undo |-> Append(history.undo, Snapshot), redo |-> <<>>]
    /\ text_version' = DidChange(text_version, lsp_ready)
    /\ UNCHANGED <<lsp_ready, completion_args, word_tokens, requests,
                   handled, lint, lsp_log>>
    /\ UNCHANGED <<indent_vars, nav_vars, comment_vars>>

\* undo(): text_version -= 1, then document_did_change('')
UndoVersion(version, ready) == DidChange(version - 1, ready)

\* undo(), when document().isUndoAvailable()
undo ==
    /\ history.undo # <<>>
    /\ text_version > -MaxVersion
    /\ text_version' = UndoVersion(text_version, lsp_ready)
    /\ Restored(history.undo[Len(history.undo)])
    /\ history' = [undo |-> SubSeq(history.undo, 1, Len(history.undo) - 1),
                   redo |-> Append(history.redo, Snapshot)]
    /\ UNCHANGED <<lsp_ready, completion_args, word_tokens, requests,
                   handled, lint, lsp_log>>
    /\ UNCHANGED <<indent_vars, nav_vars, comment_vars>>

\* redo(), when document().isRedoAvailable(): text_version += 1, then
\* document_did_change('text')
redo ==
    /\ history.redo # <<>>
    /\ text_version < MaxVersion
    /\ text_version' = DidChange(text_version + 1, lsp_ready)
    /\ Restored(history.redo[Len(history.redo)])
    /\ history' = [undo |-> Append(history.undo, Snapshot),
                   redo |-> SubSeq(history.redo, 1, Len(history.redo) - 1)]
    /\ UNCHANGED <<lsp_ready, completion_args, word_tokens, requests,
                   handled, lint, lsp_log>>
    /\ UNCHANGED <<indent_vars, nav_vars, comment_vars>>

LspNext ==
    \/ start_lsp_services
    \/ stop_lsp_services
    \/ paste(t_x)
    \/ undo
    \/ redo

LspSpec == LspInit /\ [][LspNext]_vars

----------------------------------------------------------------------------
(* Vocabulary of the properties, read off the document *)

\* the indent unit of the current settings
Unit == IndentUnit(indent_chars, tab_stop_width_spaces)

\* a line that is empty or whitespace once its inline comment is removed
BlankLine(line) == Strip(InlineCommentRemoved(line)) = <<>>

\* block number of the nearest non-blank line at or above block n, or -1
RECURSIVE NearestNonBlank(_, _)
NearestNonBlank(d, n) ==
    IF n < 0 THEN -1
    ELSE IF ~BlankLine(d[n + 1]) THEN n
    ELSE NearestNonBlank(d, n - 1)

\* the anchor of the cursor line: the nearest preceding non-blank line.  The
\* lines above the cursor are not touched by the call.
Anchor == NearestNonBlank(doc, block_nb - 1)

\* the anchor's text without its inline comment and surrounding whitespace
AnchorText == Strip(InlineCommentRemoved(doc[Anchor + 1]))

AnchorIndentation ==
    get_block_indentation(doc, Anchor, tab_stop_width_spaces)

\* block number of the nearest line at or above block n whose text,
\* right-stripped and cut at the first '#', is not empty, or -1
RECURSIVE NearestNonEmpty(_, _)
NearestNonEmpty(d, n) ==
    IF n < 0 THEN -1
    ELSE IF InlineCommentRemoved(d[n + 1]) # <<>> THEN n
    ELSE NearestNonEmpty(d, n - 1)

\* the first line the scan does not skip, and its text as the scan reads it
FirstRead == NearestNonEmpty(doc, block_nb - 1)

FirstReadText == InlineCommentRemoved(doc[FirstRead + 1])

\* its indentation as the function takes it: 0 for the first line
FirstReadBase ==
    IF FirstRead = 0 THEN 0
    ELSE get_block_indentation(doc, FirstRead, tab_stop_width_spaces)

\* keywords that open a block
BlockKeywords ==
    {<<"d", "e", "f">>, <<"c", "l", "a", "s", "s">>, <<"i", "f">>,
     <<"f", "o", "r">>, <<"w", "h", "i", "l", "e">>, <<"w", "i", "t", "h">>}

\* the text is a block-opening statement
BlockOpener(t) ==
    /\ EndsWith(t, <<":">>)
    /\ \E k \in BlockKeywords : FirstWord(t) = <<k>>

\* the text has no bracket at all
NoBrackets(t) == \A i \in 1..Len(t) : t[i] \notin Openers \cup Closers

\* no kind of bracket is closed more often than opened in the text
NoExcessCloser(t) ==
    /\ DiffOf(t, ")", "(") <= 0
    /\ DiffOf(t, "]", "[") <= 0
    /\ DiffOf(t, "}", "{") <= 0

\* continue, break, pass, or a return statement with balanced brackets
FlowTerminating(t) ==
    \/ t \in {kw_continue, kw_break, kw_pass}
    \/ /\ FirstWord(t) = <<kw_return>>
       /\ AllBracesMatching(t)
       /\ SplitOpenLen(t) = SplitCloseLen(t)

\* continue, break, pass or return statement of any shape
FlowStatement(t) ==
    \/ \E k \in {kw_continue, kw_break, kw_pass, kw_return} :
           FirstWord(t) = <<k>>
    \/ UnindentCondition(t)

\* the check on the line just above the cursor, as the property words it
PrecedingLineDedented ==
    /\ block_nb >= 1
    /\ get_block_indentation(doc, block_nb - 1, tab_stop_width_spaces)
           < AnchorIndentation

----------------------------------------------------------------------------
(* C1 *)

\* C1: after a call, when the nearest preceding non-blank line (inline
\* comment removed) ends with ':' and is a block-opening statement, the
\* computed indentation is that line's indentation plus exactly one indent
\* unit, wherever the line sits in the document (line 0 included).
C1_BlockOpenerAddsOneUnit ==
    (ncalls > 0 /\ Anchor >= 0 /\ BlockOpener(AnchorText))
        => loc.correct_indent = AnchorIndentation + Unit

----------------------------------------------------------------------------
(* C2 *)

\* the anchor is a continue, break, pass or balanced return statement
C2_Case == ncalls > 0 /\ Anchor >= 0 /\ FlowTerminating(AnchorText)

C2_RuleDecides ==
    /\ ncalls > 0
    /\ ~args.comment_or_string
    /\ FirstRead >= 0
    /\ UnindentCondition(FirstReadText)
    /\ NoExcessCloser(FirstReadText)
    /\ ~EndsWith(Strip(FirstReadText), <<":">>)
    /\ ~loc.post_check

\* the keyword is followed by an inline comment: the text read keeps the
\* whitespace before the '#' and no longer ends in the keyword
C2_KeywordThenComment ==
    /\ ncalls > 0
    /\ ~args.comment_or_string
    /\ FirstRead >= 0
    /\ Strip(FirstReadText) \in {kw_continue, kw_break, kw_pass}
    /\ ~UnindentCondition(FirstReadText)
    /\ ~loc.post_check

----------------------------------------------------------------------------
(* C3 *)

\* C3: after a call, when the anchor matches none of the special rules (no
\* ':' at its end, no continue/break/pass/return, no brackets) and the
\* post-check does not apply, the computed indentation equals the anchor's
\* own indentation, for an anchor at any line index including line 0.
C3_PlainAnchorIsCopied ==
    (/\ ncalls > 0
     /\ Anchor >= 0
     /\ ~EndsWith(AnchorText, <<":">>)
     /\ ~FlowStatement(AnchorText)
     /\ NoBrackets(AnchorText)
     /\ ~loc.post_check
     /\ ~PrecedingLineDedented)
        => loc.correct_indent = AnchorIndentation

----------------------------------------------------------------------------
(* C6 *)

\* the anchor ends with an opening bracket that stays open on the line, and
\* is longer than twice the indent-unit width
C6_Case ==
    /\ ncalls > 0
    /\ Anchor >= 0
    /\ AnchorText[Len(AnchorText)] \in Openers
    /\ ~AllBracesMatching(AnchorText)
    /\ Len(InlineCommentRemoved(doc[Anchor + 1])) > 2 * Unit

\* C6 as stated: whenever the anchor line ends with an opening bracket not
\* closed on that line and is longer than twice the indent-unit width, the
\* computed indentation is the anchor's indentation plus exactly two units.
C6_Original == C6_Case => loc.correct_indent = AnchorIndentation + 2 * Unit

\* the case in which the hanging-indent rule decides the result: the call
\* was made with comment_or_string=False, the nearest preceding line whose
\* text (right-stripped, cut at the first '#') is not empty ends with an
\* opening bracket that the stack check leaves open, is longer than twice
\* the unit, closes no bracket more often than it opens it, does not meet
\* the unindent condition, and the post-check does not apply
C6_RuleDecides ==
    /\ ncalls > 0
    /\ ~args.comment_or_string
    /\ FirstRead >= 0
    /\ LET t == RStrip(FirstReadText) IN t # <<>> /\ t[Len(t)] \in Openers
    /\ ~AllBracesMatching(FirstReadText)
    /\ Len(FirstReadText) > 2 * Unit
    /\ NoExcessCloser(FirstReadText)
    /\ ~UnindentCondition(FirstReadText)
    /\ ~loc.post_check

\* C6 (amended): when the hanging-indent rule decides the result, the
\* computed indentation is the anchor's indentation (taken as 0 for an anchor
\* on line 0) plus exactly two indent units.
C6_Amended == C6_RuleDecides => loc.correct_indent = FirstReadBase + 2 * Unit

\* a hanging indent below an anchor that is not the first line was applied
C6_Witness ==
    /\ C6_RuleDecides
    /\ C6_Case
    /\ FirstRead > 0
    /\ loc.rule = "hanging"
    /\ ret = "True"

----------------------------------------------------------------------------
(* C7 *)

\* the example: 4-space unit, lines ["x = [1,", ""], cursor on line 1, one
\* call with the default arguments
C7_Case ==
    /\ ncalls = 1
    /\ indent_chars = Spaces(4)
    /\ args.forward /\ ~args.comment_or_string
    /\ Len(doc) = 2 /\ block_nb = 1
    /\ doc[1] = t_list
    /\ loc.indent = 0 /\ Strip(doc[2]) = <<>>

\* C7 as stated: on the example the hanging-indent rule fires and the call
\* yields the anchor's indentation plus two units, column 8, changed=True.
C7_Original ==
    C7_Case => /\ loc.correct_indent = 8
               /\ loc.rule = "hanging"
               /\ ret = "True"

\* C7 (amended): on the example the line does not end with its bracket, the
\* bracket-alignment rule fires and the call yields the column just after
\* the '[', column 5, changed=True.
C7_Amended ==
    C7_Case => /\ loc.correct_indent = 5
               /\ loc.correct_indent = Find(t_list, "[") + 1
               /\ loc.rule = "align"
               /\ ret = "True"
               /\ doc[2] = Spaces(5)

\* the example was run
C7_Witness == C7_Case /\ ret = "True"

----------------------------------------------------------------------------
(* C8 *)

\* positions (1-based) of the opening brackets of t[i..] left unmatched, a
\* closing bracket matching the nearest open one
RECURSIVE UnmatchedOpeners(_, _, _)
UnmatchedOpeners(t, i, open) ==
    IF i > Len(t) THEN open
    ELSE IF t[i] \in Openers THEN UnmatchedOpeners(t, i + 1, Append(open, i))
    ELSE IF t[i] \in Closers /\ open # <<>>
         THEN UnmatchedOpeners(t, i + 1, SubSeq(open, 1, Len(open) - 1))
    ELSE UnmatchedOpeners(t, i + 1, open)

\* the bracket-alignment rule decided the result
C8_Case ==
    /\ ncalls > 0
    /\ Anchor >= 0
    /\ loc.prevline = Anchor
    /\ loc.rule = "align"
    /\ ~loc.post_check

\* C8: when the anchor has a bracket left open and the hanging-indent rule
\* does not apply, the computed indentation is the column just after the
\* last opening bracket still unmatched on the line (for 'f(a)(b, c' the
\* column after the second '('), and the anchor's own indentation when no
\* unmatched bracket remains.
C8_AlignsAfterLastUnmatched ==
    C8_Case =>
        LET open == UnmatchedOpeners(loc.anchor_text, 1, <<>>)
        IN  IF open # <<>> THEN loc.correct_indent = open[Len(open)]
            ELSE loc.correct_indent = AnchorIndentation

----------------------------------------------------------------------------
(* C9 *)

\* a call is made in this step
CallStep == ncalls' = ncalls + 1

\* indentation of the line just above the cursor line
IndentAbove == get_block_indentation(doc, block_nb - 1, tab_stop_width_spaces)

\* the cursor line is blank
CursorLineBlank == Strip(doc[block_nb + 1]) = <<>>

\* the largest multiple of n at or below k, and the least at or above k
RoundDown(k, n) == CHOOSE m \in (k - n + 1)..k : m % n = 0

RoundUp(k, n) == CHOOSE m \in k..(k + n - 1) : m % n = 0

\* the line just above the cursor is less indented than the line the scan
\* stopped on
C9_Dedented(prevline) ==
    /\ block_nb >= 1
    /\ prevline >= 0
    /\ IndentAbove
           < get_block_indentation(doc, prevline, tab_stop_width_spaces)

C9_Condition(l) ==
    /\ l.diff_paren = 0 /\ l.diff_brack = 0 /\ l.diff_curly = 0
    /\ ~EndsWith(l.prevtext, <<":">>)
    /\ l.prevline > 0
    /\ C9_Dedented(l.prevline)
    /\ \/ ~CursorLineBlank
       \/ Strip(doc[block_nb]) = <<>>

----------------------------------------------------------------------------
(* C10 *)

\* the line at which the scan stops if the three counters are summed over the
\* lines read and the scan ends at the first line where none is positive
RECURSIVE SummedStop(_, _, _, _, _)
SummedStop(d, n, paren, brack, curly) ==
    IF n < 0 THEN -1
    ELSE LET t == InlineCommentRemoved(d[n + 1])
             p == paren + DiffOf(t, ")", "(")
             b == brack + DiffOf(t, "]", "[")
             c == curly + DiffOf(t, "}", "{")
         IN  IF t = <<>> THEN SummedStop(d, n - 1, paren, brack, curly)
             ELSE IF p <= 0 /\ b <= 0 /\ c <= 0 THEN n
             ELSE SummedStop(d, n - 1, p, b, c)

\* C10: the scan tracks the three closing-minus-opening counters on every
\* line, accumulates them while one is positive and stops at the first line
\* where all three are zero or below; a line that opens more brackets than
\* are pending does not make it run on to the top of the document.
C10_ScanStopsWhenResolved ==
    LET stop == SummedStop(doc, block_nb - 1, 0, 0, 0)
    IN  (ncalls > 0 /\ stop >= 0) => loc.prevline = stop

----------------------------------------------------------------------------
(* C4 *)

\* indentation of the cursor line
CursorIndent == get_block_indentation(doc, block_nb, tab_stop_width_spaces)

\* C4: fix_indent_smart is a test-and-set: with forward=True it never
\* reduces the cursor line's indentation, with forward=False it never
\* increases it, and when the existing indentation already satisfies the
\* requested direction it returns False and leaves the document unchanged.
C4_TestAndSet ==
    [][CallStep =>
           /\ args'.forward => CursorIndent' >= CursorIndent
           /\ ~args'.forward => CursorIndent' <= CursorIndent
           /\ NoFixNecessary(args'.forward, CursorIndent, loc'.correct_indent)
                  => (ret' = "False" /\ doc' = doc)]_vars

----------------------------------------------------------------------------
(* C5 *)

\* C5: a second consecutive fix_indent_smart(forward=True) on the same
\* cursor line returns False and leaves the document as the first call
\* left it.
C5_Idempotent ==
    [][(/\ CallStep
        /\ ncalls >= 1
        /\ args.forward /\ ~args.comment_or_string
        /\ args'.forward /\ ~args'.comment_or_string)
           => (ret' = "False" /\ doc' = doc)]_vars

----------------------------------------------------------------------------
(* C11 *)

\* 0-based position of the first '#' of t[i..] that is outside a string
\* literal, or -1; quote is the character that opened the literal
\* being read, or "" outside a literal
RECURSIVE HashOutsideString(_, _, _)
HashOutsideString(t, i, quote) ==
    IF i > Len(t) THEN -1
    ELSE IF quote # "" THEN
             HashOutsideString(t, i + 1, IF t[i] = quote THEN "" ELSE quote)
    ELSE IF t[i] \in {"'", "\""} THEN HashOutsideString(t, i + 1, t[i])
    ELSE IF t[i] = "#" THEN i - 1
    ELSE HashOutsideString(t, i + 1, "")

\* the line without its comment, a '#' inside a string literal being text
CommentOutsideStringRemoved(line) ==
    LET t  == RStrip(line)
        ic == HashOutsideString(t, 1, "")
    IN  IF ic # -1 THEN Prefix(t, ic) ELSE t

\* C11: the text the scan keeps of the line it stopped on is the line cut at
\* the first '#' that is not inside a string literal; a '#' inside a string
\* does not truncate it, so a line such as  if x == "#":  is still seen to
\* end with ':'.
C11_HashInStringKept ==
    (ncalls > 0 /\ loc.prevline >= 0) =>
        /\ loc.anchor_text = CommentOutsideStringRemoved(doc[loc.prevline + 1])
        /\ EndsWith(CommentOutsideStringRemoved(doc[loc.prevline + 1]),
                    <<":">>) => loc.add_indent

----------------------------------------------------------------------------
(* C12 *)

\* C12: when no non-blank line precedes the cursor line (the cursor is on
\* line 0, or every earlier line is blank or comment-only), the computed
\* indentation is 0, and the call returns False when the cursor line is
\* already at indentation 0.
C12_NoAnchorGivesZero ==
    (ncalls > 0 /\ Anchor = -1) =>
        /\ loc.correct_indent = 0
        /\ loc.indent = 0 => ret = "False"

----------------------------------------------------------------------------
(* C13 *)

\* the example: 4-space unit, lines ["    return 1", ""], cursor on line 1,
\* one call with the default arguments
C13_Case ==
    /\ ncalls = 1
    /\ indent_chars = Spaces(4)
    /\ args.forward /\ ~args.comment_or_string
    /\ Len(doc) = 2 /\ block_nb = 1
    /\ doc[1] = Spaces(4) \o t_return1
    /\ loc.indent = 0 /\ Strip(doc[2]) = <<>>

\* C13 as stated: on the example the call yields column 0 and reports
\* changed=True.
C13_Original ==
    C13_Case => /\ loc.correct_indent = 0
                /\ ret = "True"

\* C13 (amended): on the example the unindent rule fires on an anchor whose
\* indentation is read as 0, the computed indentation is -4, and the
\* forward call returns False and leaves the empty cursor line at column 0.
C13_Amended ==
    C13_Case => /\ loc.rule = "unindent"
                /\ loc.correct_indent = -4
                /\ ret = "False"
                /\ doc[2] = <<>>

\* the example was run
C13_Witness == C13_Case /\ loc.prevline = 0 /\ ret = "False"

----------------------------------------------------------------------------
(* C14 *)

----------------------------------------------------------------------------
(* C15 *)

\* C15: every call terminates: the backward scan runs its body once for each
\* block from the one above the cursor down to the one it stops on, so
\* at most block_nb times, and the bracket-stripping loops over the anchor
\* text run at most as many iterations as the anchor text has characters.
C15_Terminates ==
    ncalls > 0 =>
        /\ loc.scan_steps <= block_nb
        /\ loc.scan_steps = IF loc.prevline = -1 THEN 0
                            ELSE block_nb - loc.prevline
        /\ loc.strip_steps <= Len(loc.anchor_text)
        /\ ret \in {"True", "False", "None"}

\* a scan over more than one block ended in the bracket-stripping loops
C15_Witness ==
    /\ ncalls > 0
    /\ loc.scan_steps >= 2
    /\ loc.rule = "align"
    /\ loc.strip_steps >= 1

----------------------------------------------------------------------------
(* C16 *)

\* a block the search of nav.op looks for
Wanted(i) ==
    IF nav.op = "next_todo" THEN HasTodo(userdata[i + 1])
    ELSE HasWarning(userdata[i + 1])

\* distance from block a to block b in the search direction of nav.op,
\* from 1 to the number of blocks
Distance(a, b) ==
    LET n == Len(doc)
        d == IF nav.op = "previous_warning" THEN (a - b) % n ELSE (b - a) % n
    IN  IF d = 0 THEN n ELSE d

\* C16: go_to_next_warning, go_to_previous_warning and go_to_next_todo
\* terminate for every document state, also when no block carries a result
\* (a todo): the search loop never runs more iterations than the document
\* has blocks; and when it returns, the cursor is on the nearest block with
\* a result in the search direction, wrapping around the document end.
C16_SearchReturns ==
    /\ nav.steps <= Len(doc)
    /\ (nav.op # "none" /\ nav.pc = "idle") =>
           /\ Wanted(block_nb)
           /\ \A i \in 0..(Len(doc) - 1) :
                  Wanted(i) =>
                      Distance(nav.start, block_nb) <= Distance(nav.start, i)


\* a response of the server was handled by process_completion in this step
ResponseStep == requests' \subseteq requests /\ requests' # requests

\* C17: process_completion consumes the pending request: after it handled a
\* response completion_args is None, and a response that arrives while
\* completion_args is None is ignored: no list is shown and nothing else
\* changes.
C17_RequestConsumed ==
    [][ResponseStep =>
         /\ completion_args' = NoArgs
         /\ (completion_args = NoArgs =>
               /\ ~handled'.shown
               /\ UNCHANGED <<lsp_ready, completion_args, word_tokens,
                              text_version, cursor_position>>
               /\ UNCHANGED <<doc, block_nb, indent_vars, nav_vars, comment_vars, service_vars>>)]_vars

\* the second response carried completions and was ignored, the request
\* having been consumed before
C17_Witness ==
    /\ handled.request.id = 2
    /\ handled.completions > 0
    /\ ~handled.shown
    /\ completion_args = NoArgs


\* C18: under any interleaving of do_completion calls, receive_text_tokens
\* calls and responses, a list shown for a response uses the position and
\* the automatic flag recorded by the do_completion call that produced that
\* response, and no response that carries completions is dropped.
C18_ResponseUsesItsRequest ==
    handled.request.id > 0 =>
        /\ (handled.shown =>
              /\ handled.position = handled.request.position
              /\ handled.automatic = handled.request.automatic)
        /\ (handled.completions > 0 => handled.shown)


\* uncomment() runs in this step, right after comment(), both on the
\* cursor's line with nothing selected
RoundTripStep ==
    /\ toggled.call = "comment"
    /\ toggled.by = "comment"
    /\ ~toggled.selected
    /\ toggled'.call = "uncomment"
    /\ toggled'.by = "uncomment"
    /\ ~toggled'.selected
    /\ toggled'.edits = toggled.edits + 1

\* C20: round trip: on a single line with nothing selected and no
\* block-comment bars around, comment() followed by uncomment() restores the
\* text of the line exactly, whatever its leading spaces (multiples of the
\* indent width or not) and whatever the space-based indent width.
C20_RoundTrip == [][RoundTripStep => doc' = toggled.before]_vars


\* toggle_comment runs in this step
ToggleStep ==
    /\ toggled'.by = "toggle_comment"
    /\ toggled'.edits = toggled.edits + 1

\* after leading whitespace the line starts with the comment string
IsCommentLine(line) == StartsWith(LStrip(line), comment_string)

IsWhitespaceOnly(line) == LStrip(line) = <<>>

\* the first block of the line/selection range
RangeFirst == BlockOfPos(doc, Min2(anchor, cursor_position))

\* the last block of the range: a selection that ends at the start of a
\* block does not include that block
RangeLast ==
    LET end_pos == Max2(anchor, cursor_position)
        b == BlockOfPos(doc, end_pos)
    IN  IF anchor # cursor_position /\ end_pos = BlockPosition(doc, b)
        THEN b - 1
        ELSE b

\* C19: toggle_comment uncomments exactly when every line of the range is a
\* comment line or whitespace-only and at least one of them is a comment
\* line; in every other case, a range of only blank lines included, it
\* comments; a selection that ends at the start of a block leaves that block
\* out of the range.
C19_ToggleChoice ==
    [][ToggleStep =>
         /\ toggled'.first_line = RangeFirst
         /\ toggled'.last_line = RangeLast
         /\ toggled'.call \in {"comment", "uncomment"}
         /\ (toggled'.call = "uncomment" <=>
               /\ \A n \in RangeFirst..RangeLast :
                     IsCommentLine(doc[n + 1]) \/ IsWhitespaceOnly(doc[n + 1])
               /\ \E n \in RangeFirst..RangeLast : IsCommentLine(doc[n + 1]))
       ]_vars

\* toggle_comment uncommented a selection of several lines, one of them
\* whitespace-only
C19_Witness ==
    /\ toggled.by = "toggle_comment"
    /\ toggled.call = "uncomment"
    /\ toggled.selected
    /\ toggled.last_line > toggled.first_line
    /\ \E n \in toggled.first_line..toggled.last_line :
          IsWhitespaceOnly(toggled.before[n + 1])


\* the diagnostics of the results that start on block b, in the order given
RECURSIVE StartingOn(_, _, _)
StartingOn(results, b, i) ==
    IF i > Len(results) THEN <<>>
    ELSE (IF results[i] = b THEN <<i>> ELSE <<>>)
             \o StartingOn(results, b, i + 1)

\* the messages of the items stored on block b
StoredMessages(b) ==
    [k \in 1..Len(userdata[b + 1].code_analysis) |->
        userdata[b + 1].code_analysis[k][4]]

\* C21: after process_code_analysis(results) the code_analysis list of each
\* block holds exactly the diagnostics of results that start on that block,
\* in the order given, and nothing from earlier calls; the markers depend
\* only on the last results.
C21_MarkersOfLastResults ==
    lint.processed =>
        \A b \in 0..(Len(doc) - 1) :
            StoredMessages(b) = StartingOn(lint.results, b, 1)

\* two diagnostics were stored on one block, and another block keeps its
\* user data with the markers of the earlier analysis removed
C21_Witness ==
    /\ lint.processed
    /\ \E b \in 0..(Len(doc) - 1) : Len(userdata[b + 1].code_analysis) = 2
    /\ \E b \in 0..(Len(doc) - 1) :
          userdata[b + 1].data /\ userdata[b + 1].code_analysis = <<>>

\* every item stored in the document, as [message, 1-based line number]
RECURSIVE AllWarnings(_)
AllWarnings(b) ==
    IF b >= Len(doc) THEN <<>>
    ELSE BlockWarnings(userdata[b + 1], b) \o AllWarnings(b + 1)

\* C22: get_current_warnings returns all warnings of the editor: one
\* [message, 1-based line number] entry for every code-analysis item stored
\* on every block, the last line and a single-line document included.
C22_AllWarningsReturned ==
    lint.returned => lint.warnings = AllWarnings(0)


\* undo() runs in this step: an undo step becomes a redo step
UndoStep ==
    /\ Len(history'.undo) = Len(history.undo) - 1
    /\ Len(history'.redo) = Len(history.redo) + 1

\* C23: when an undo step is available, undo() leaves text_version strictly
\* lower than it was before the call, the document_did_change call that
\* undo itself makes taken into account.
C23_UndoLowersVersion == [][UndoStep => text_version' < text_version]_vars

\* start_lsp_services is called in this step
StartStep == lsp_log'.starts = lsp_log.starts + 1

\* C24: start_lsp_services starts the integration only if it was not started
\* before: while lsp_ready is True a further call neither parses the server
\* config again nor sends another didOpen, and over any sequence of
\* start_lsp_services and stop_lsp_services calls exactly one didOpen is
\* sent per transition from not ready to ready.
C24_OneDidOpenPerStart ==
    [][/\ (StartStep /\ lsp_ready =>
             /\ lsp_log'.parsed = lsp_log.parsed
             /\ lsp_log'.did_open = lsp_log.did_open
             /\ lsp_ready')
       /\ lsp_log'.did_open =
             lsp_log.did_open + (IF ~lsp_ready /\ lsp_ready' THEN 1 ELSE 0)
       /\ lsp_log'.parsed =
             lsp_log.parsed + (IF ~lsp_ready /\ lsp_ready' THEN 1 ELSE 0)
      ]_vars

\* the services were started, and start_lsp_services was called once more
\* while they were ready
C24_Witness ==
    /\ lsp_ready
    /\ lsp_log.did_open = 1
    /\ lsp_log.starts > lsp_log.did_open

====
